---- MODULE Spec2Model ----
(***************************************************************************)
(* Model of the recorder/player screen src/components/AudioRecorderDemo.tsx *)
(*                                                                         *)
(* The component holds six React state cells and five async handlers.  A   *)
(* handler runs synchronously up to its next `await`; there it suspends    *)
(* and any other handler (or a platform callback) may run.  Each action    *)
(* below is one such segment: the completion of the awaited platform call  *)
(* (its effect on the platform and its outcome, success or rejection)      *)
(* followed by the handler's code up to the next await or its return.      *)
(* A handler reads recording / sound / recordedURI from the closure of the *)
(* render in which it was invoked, so an invocation keeps the values it    *)
(* captured at its call (fields rec, snd, uri of its slot).                *)
(*                                                                         *)
(* The platform libraries (expo-av, expo-sharing, expo-file-system) are    *)
(* not part of the repository: every awaited call may resolve or reject.   *)
(* A rejected call has no effect on the platform.                          *)
(***************************************************************************)
EXTENDS Integers, FiniteSets, Sequences, TLC

\* ---- bounds -------------------------------------------------------------
MaxInFlight == 2   \* handler invocations that may be suspended at once
MaxRec == 2        \* Audio.Recording objects ever prepared
MaxSnd == 2        \* Audio.Sound objects ever created

\* ---- values -------------------------------------------------------------
Null == 0          \* JS null in recording / sound / recordedURI / error

Slots == 1..MaxInFlight
RecIds == 1..MaxRec
SndIds == 1..MaxSnd

\* the strings passed to setError
StartFailed == "Failed to start recording"
StopFailed == "Failed to stop recording"
NothingToPlay == "No recording to play"
PlayFailed == "Failed to play recording"
NothingToShare == "No recording to share"
SharingUnavailable == "Sharing is not available on this device"
ShareFailed == "Failed to share recording"
NoError == "null"

VARIABLES
    recording,     \* useState<Audio.Recording | null>
    recordedURI,   \* useState<string | null>
    isRecording,   \* useState<boolean>
    sound,         \* useState<Audio.Sound | null>
    isPlaying,     \* useState<boolean>
    error,         \* useState<string | null>
    inv,           \* the suspended handler invocations, one per slot
    liveRec,       \* platform: recordings prepared and not yet unloaded
    loaded,        \* platform: sounds loaded and not yet unloaded
    playing,       \* platform: sounds currently playing
    cb,            \* platform: sounds with a playback-status callback
    audioMode,     \* platform: allowsRecordingIOS of the last setAudioModeAsync
    nextRec,       \* next fresh recording id
    nextSnd,       \* next fresh sound id
    last           \* the handler segment that produced this state

state == <<recording, recordedURI, isRecording, sound, isPlaying, error>>
platform == <<liveRec, loaded, playing, cb, audioMode, nextRec, nextSnd>>
vars == <<recording, recordedURI, isRecording, sound, isPlaying, error, inv,
          liveRec, loaded, playing, cb, audioMode, nextRec, nextSnd, last>>

Idle == [op |-> "none", pc |-> "idle", rec |-> Null, snd |-> Null,
         uri |-> Null, new |-> Null, calls |-> {}]

\* recording.getURI(): the locator of the file the recording wrote
getURI(h) == h

Init ==
    /\ recording = Null
    /\ recordedURI = Null
    /\ isRecording = FALSE
    /\ sound = Null
    /\ isPlaying = FALSE
    /\ error = NoError
    /\ inv = [i \in Slots |-> Idle]
    /\ liveRec = {}
    /\ loaded = {}
    /\ playing = {}
    /\ cb = {}
    /\ audioMode = FALSE
    /\ nextRec = 1
    /\ nextSnd = 1
    /\ last = [op |-> "init", ev |-> "init", at |-> "init", res |-> "ok",
               calls |-> {}]

\* ---- handler bookkeeping -------------------------------------------------
Free(i) == inv[i].op = "none"

\* a new invocation takes the lowest free slot
FirstFree(i) == Free(i) /\ \A j \in Slots : j < i => ~Free(j)

At(i, op, pc) == inv[i].op = op /\ inv[i].pc = pc

\* the invocation in slot i (captured values c) suspends at `await call`
Await(i, c, call, at, res) ==
    /\ inv' = [inv EXCEPT ![i] = [c EXCEPT !.pc = call,
                                           !.calls = @ \cup {call}]]
    /\ last' = [op |-> c.op, ev |-> "await", at |-> at, res |-> res,
                calls |-> c.calls \cup {call}]

\* the invocation in slot i returns normally (its promise resolves)
Return(i, c, at, res) ==
    /\ inv' = [inv EXCEPT ![i] = Idle]
    /\ last' = [op |-> c.op, ev |-> "return", at |-> at, res |-> res,
                calls |-> c.calls]

\* the invocation in slot i ends with an exception no handler caught
\* (its promise rejects)
Throw(i, c, at) ==
    /\ inv' = [inv EXCEPT ![i] = Idle]
    /\ last' = [op |-> c.op, ev |-> "throw", at |-> at, res |-> "fail",
                calls |-> c.calls]

Capture(op) == [Idle EXCEPT !.op = op, !.rec = recording, !.snd = sound,
                            !.uri = recordedURI]

\* ---- startRecording (lines 38-94) ----------------------------------------
\* the catch block of startRecording
StartCatch(i, at) ==
    /\ error' = StartFailed
    /\ Return(i, inv[i], at, "fail")
    /\ UNCHANGED <<recording, recordedURI, isRecording, sound, isPlaying>>

\* entry: runs to `await Audio.requestPermissionsAsync()`
startRecording(i) ==
    /\ FirstFree(i)
    /\ nextRec + Cardinality({j \in Slots : inv[j].op = "startRecording"
                                            /\ inv[j].new = Null}) <= MaxRec
    /\ Await(i, Capture("startRecording"), "requestPermissionsAsync",
             "entry", "ok")
    /\ UNCHANGED <<state, platform>>

\* what startRecording does with the permission status
PermissionNext(status) == IF status # "granted" THEN "return" ELSE "continue"

\* requestPermissionsAsync settles: granted, denied, or rejected
StartRecording_Permission(i) ==
    /\ At(i, "startRecording", "requestPermissionsAsync")
    /\ \E outcome \in {"granted", "denied", "reject"} :
         IF outcome = "reject"
         THEN StartCatch(i, "requestPermissionsAsync")
         ELSE IF PermissionNext(outcome) = "return"
         THEN /\ Return(i, inv[i], "requestPermissionsAsync", "denied")
              /\ UNCHANGED state
         ELSE /\ Await(i, inv[i], "setAudioModeAsync",
                       "requestPermissionsAsync", "ok")
              /\ UNCHANGED state
    /\ UNCHANGED platform

\* setAudioModeAsync({allowsRecordingIOS: true}) settles; then
\* new Audio.Recording() and `await prepareToRecordAsync`
StartRecording_SetMode(i) ==
    /\ At(i, "startRecording", "setAudioModeAsync")
    /\ \E ok \in BOOLEAN :
         IF ok
         THEN /\ audioMode' = TRUE
              /\ Await(i, inv[i], "prepareToRecordAsync",
                       "setAudioModeAsync", "ok")
              /\ UNCHANGED state
         ELSE /\ StartCatch(i, "setAudioModeAsync")
              /\ UNCHANGED audioMode
    /\ UNCHANGED <<liveRec, loaded, playing, cb, nextRec, nextSnd>>

\* prepareToRecordAsync settles: on success the platform holds an open
\* recording; then `await newRecording.startAsync()`
StartRecording_Prepare(i) ==
    /\ At(i, "startRecording", "prepareToRecordAsync")
    /\ \E ok \in BOOLEAN :
         IF ok
         THEN /\ liveRec' = liveRec \cup {nextRec}
              /\ nextRec' = nextRec + 1
              /\ Await(i, [inv[i] EXCEPT !.new = nextRec], "startAsync",
                       "prepareToRecordAsync", "ok")
              /\ UNCHANGED state
         ELSE /\ StartCatch(i, "prepareToRecordAsync")
              /\ UNCHANGED <<liveRec, nextRec>>
    /\ UNCHANGED <<loaded, playing, cb, audioMode, nextSnd>>

\* startAsync settles; then setRecording(newRecording), setIsRecording(true)
StartRecording_Start(i) ==
    /\ At(i, "startRecording", "startAsync")
    /\ \E ok \in BOOLEAN :
         IF ok
         THEN /\ recording' = inv[i].new
              /\ isRecording' = TRUE
              /\ Return(i, inv[i], "startAsync", "ok")
              /\ UNCHANGED <<recordedURI, sound, isPlaying, error>>
         ELSE StartCatch(i, "startAsync")
    /\ UNCHANGED platform

\* ---- stopRecording (lines 97-117) ----------------------------------------
\* a catch block that also publishes the locator of the unfinished recording
StopCatch_PublishesURI(i, at) ==
    /\ error' = StopFailed
    /\ recordedURI' = getURI(inv[i].rec)
    /\ Return(i, inv[i], at, "fail")
    /\ UNCHANGED <<recording, isRecording, sound, isPlaying>>

StopCatch(i, at) ==
    /\ error' = StopFailed
    /\ Return(i, inv[i], at, "fail")
    /\ UNCHANGED <<recording, recordedURI, isRecording, sound, isPlaying>>

\* a stopRecording without the `if (!recording) return` guard
stopRecording_NoGuard(i) ==
    /\ FirstFree(i)
    /\ Await(i, Capture("stopRecording"), "stopAndUnloadAsync", "entry", "ok")
    /\ UNCHANGED <<state, platform>>

\* entry: `if (!recording) return`, else `await recording.stopAndUnloadAsync()`
stopRecording(i) ==
    /\ FirstFree(i)
    /\ IF recording = Null
       THEN Return(i, Capture("stopRecording"), "entry", "ok")
       ELSE Await(i, Capture("stopRecording"), "stopAndUnloadAsync",
                  "entry", "ok")
    /\ UNCHANGED <<state, platform>>

\* state updates that keep an asset locator once there is one
StopUpdates_KeepsFirst(i) ==
    /\ recordedURI' = IF recordedURI # Null THEN recordedURI
                                            ELSE getURI(inv[i].rec)
    /\ recording' = Null
    /\ isRecording' = FALSE

\* state updates that forget setRecording(null)
StopUpdates_KeepsHandle(i) ==
    /\ recordedURI' = getURI(inv[i].rec)
    /\ recording' = recording
    /\ isRecording' = FALSE

\* the state updates of stopRecording after a successful stopAndUnloadAsync
StopUpdates(i) ==
    /\ recordedURI' = getURI(inv[i].rec)
    /\ recording' = Null
    /\ isRecording' = FALSE

\* stopAndUnloadAsync settles; then getURI, the three setters and
\* `await Audio.setAudioModeAsync({allowsRecordingIOS: false})`
StopRecording_StopAndUnload(i) ==
    /\ At(i, "stopRecording", "stopAndUnloadAsync")
    /\ \E ok \in BOOLEAN :
         IF ok
         THEN /\ liveRec' = liveRec \ {inv[i].rec}
              /\ StopUpdates(i)
              /\ Await(i, inv[i], "setAudioModeAsync",
                       "stopAndUnloadAsync", "ok")
              /\ UNCHANGED <<sound, isPlaying, error>>
         ELSE /\ StopCatch(i, "stopAndUnloadAsync")
              /\ UNCHANGED liveRec
    /\ UNCHANGED <<loaded, playing, cb, audioMode, nextRec, nextSnd>>

\* the mode reset settles
StopRecording_ResetMode(i) ==
    /\ At(i, "stopRecording", "setAudioModeAsync")
    /\ \E ok \in BOOLEAN :
         IF ok
         THEN /\ audioMode' = FALSE
              /\ Return(i, inv[i], "setAudioModeAsync", "ok")
              /\ UNCHANGED state
         ELSE /\ StopCatch(i, "setAudioModeAsync")
              /\ UNCHANGED audioMode
    /\ UNCHANGED <<liveRec, loaded, playing, cb, nextRec, nextSnd>>

\* ---- playRecording (lines 120-153) ---------------------------------------
PlayCatch(i, at) ==
    /\ error' = PlayFailed
    /\ Return(i, inv[i], at, "fail")

\* a playRecording without the `if (!recordedURI)` guard
playRecording_NoGuard(i) ==
    /\ FirstFree(i)
    /\ nextSnd + Cardinality({j \in Slots : inv[j].op = "playRecording"
                                            /\ inv[j].new = Null}) <= MaxSnd
    /\ Await(i, Capture("playRecording"),
             IF sound # Null THEN "unloadAsync" ELSE "createAsync",
             "entry", "ok")
    /\ UNCHANGED <<state, platform>>

\* entry: `if (!recordedURI)` sets the error and returns; else awaits
\* sound.unloadAsync() when a sound is held, Audio.Sound.createAsync otherwise
playRecording(i) ==
    /\ FirstFree(i)
    /\ nextSnd + Cardinality({j \in Slots : inv[j].op = "playRecording"
                                            /\ inv[j].new = Null}) <= MaxSnd
    /\ IF recordedURI = Null
       THEN /\ error' = NothingToPlay
            /\ Return(i, Capture("playRecording"), "entry", "nothing")
       ELSE /\ Await(i, Capture("playRecording"),
                     IF sound # Null THEN "unloadAsync" ELSE "createAsync",
                     "entry", "ok")
            /\ UNCHANGED error
    /\ UNCHANGED <<recording, recordedURI, isRecording, sound, isPlaying>>
    /\ UNCHANGED platform

\* unloadAsync of the previous sound settles; then `await createAsync`
PlayRecording_Unload(i) ==
    /\ At(i, "playRecording", "unloadAsync")
    /\ \E ok \in BOOLEAN :
         IF ok
         THEN /\ loaded' = loaded \ {inv[i].snd}
              /\ playing' = playing \ {inv[i].snd}
              /\ Await(i, inv[i], "createAsync", "unloadAsync", "ok")
              /\ UNCHANGED state
         ELSE /\ PlayCatch(i, "unloadAsync")
              /\ UNCHANGED <<recording, recordedURI, isRecording, sound,
                             isPlaying, loaded, playing>>
    /\ UNCHANGED <<liveRec, cb, audioMode, nextRec, nextSnd>>

\* newSound.setOnPlaybackStatusUpdate(...): the sounds with a callback
SetOnPlaybackStatusUpdate(s) == cb \cup {s}

\* createAsync settles: on success the platform holds a loaded sound; then
\* setSound(newSound), the callback is registered, `await setVolumeAsync`
PlayRecording_Create(i) ==
    /\ At(i, "playRecording", "createAsync")
    /\ \E ok \in BOOLEAN :
         IF ok
         THEN /\ loaded' = loaded \cup {nextSnd}
              /\ nextSnd' = nextSnd + 1
              /\ sound' = nextSnd
              /\ cb' = SetOnPlaybackStatusUpdate(nextSnd)
              /\ Await(i, [inv[i] EXCEPT !.new = nextSnd], "setVolumeAsync",
                       "createAsync", "ok")
              /\ UNCHANGED <<recording, recordedURI, isRecording, isPlaying,
                             error>>
         ELSE /\ PlayCatch(i, "createAsync")
              /\ UNCHANGED <<recording, recordedURI, isRecording, sound,
                             isPlaying, loaded, nextSnd, cb>>
    /\ UNCHANGED <<liveRec, playing, audioMode, nextRec>>

\* setVolumeAsync(1.0) settles; then setIsPlaying(true), `await playAsync`
PlayRecording_SetVolume(i) ==
    /\ At(i, "playRecording", "setVolumeAsync")
    /\ \E ok \in BOOLEAN :
         IF ok
         THEN /\ isPlaying' = TRUE
              /\ Await(i, inv[i], "playAsync", "setVolumeAsync", "ok")
              /\ UNCHANGED <<recording, recordedURI, isRecording, sound,
                             error>>
         ELSE /\ PlayCatch(i, "setVolumeAsync")
              /\ UNCHANGED <<recording, recordedURI, isRecording, sound,
                             isPlaying>>
    /\ UNCHANGED platform

\* the platform acts on a pending playAsync: the loaded sound starts playing
\* (it may reach its end before playRecording resumes)
PlayAsync_Starts(i) ==
    /\ At(i, "playRecording", "playAsync")
    /\ inv[i].new \in loaded
    /\ playing' = playing \cup {inv[i].new}
    /\ inv' = [inv EXCEPT ![i].pc = "playAsync:started"]
    /\ last' = [op |-> "playRecording", ev |-> "platform", at |-> "playAsync",
                res |-> "ok", calls |-> inv[i].calls]
    /\ UNCHANGED <<state, liveRec, loaded, cb, audioMode, nextRec, nextSnd>>

\* playAsync settles: it resolves once the sound was started, and rejects
\* otherwise; then playRecording returns
PlayRecording_Play(i) ==
    /\ inv[i].op = "playRecording"
    /\ inv[i].pc \in {"playAsync", "playAsync:started"}
    /\ IF inv[i].pc = "playAsync:started"
       THEN /\ Return(i, inv[i], "playAsync", "ok")
            /\ UNCHANGED error
       ELSE PlayCatch(i, "playAsync")
    /\ UNCHANGED <<recording, recordedURI, isRecording, sound, isPlaying>>
    /\ UNCHANGED platform

\* a callback that forgets setIsPlaying(false)
OnPlaybackStatusUpdate_NoReset(status, cur) == cur

\* the callback given to setOnPlaybackStatusUpdate (lines 136-140): the value
\* of isPlaying after it ran on `status`
OnPlaybackStatusUpdate(status, cur) ==
    IF status.isLoaded /\ status.didJustFinish THEN FALSE ELSE cur

\* the platform reports the status of a loaded sound to its callback;
\* didJustFinish is reported once, when a playing sound reaches its end.
\* A report the callback ignores leaves every variable as it was.
PlaybackStatusUpdate(s) ==
    /\ s \in loaded
    /\ \E didJustFinish \in BOOLEAN :
         /\ didJustFinish => s \in playing
         /\ playing' = IF didJustFinish THEN playing \ {s} ELSE playing
         /\ isPlaying' = IF s \in cb
                          THEN OnPlaybackStatusUpdate(
                                 [isLoaded |-> TRUE,
                                  didJustFinish |-> didJustFinish], isPlaying)
                          ELSE isPlaying
         /\ last' = IF playing' = playing /\ isPlaying' = isPlaying
                     THEN last
                     ELSE [op |-> "onPlaybackStatusUpdate", ev |-> "callback",
                           at |-> IF didJustFinish THEN "didJustFinish"
                                                   ELSE "status",
                           res |-> IF s \in cb THEN "ok" ELSE "unheard",
                           calls |-> {}]
    /\ UNCHANGED <<recording, recordedURI, isRecording, sound, error, inv,
                   liveRec, loaded, cb, audioMode, nextRec, nextSnd>>

\* ---- stopPlayback (lines 155-160) ----------------------------------------
\* entry: `if (sound)` awaits sound.stopAsync(); there is no try/catch
stopPlayback(i) ==
    /\ FirstFree(i)
    /\ IF sound # Null
       THEN Await(i, Capture("stopPlayback"), "stopAsync", "entry", "ok")
       ELSE Return(i, Capture("stopPlayback"), "entry", "ok")
    /\ UNCHANGED <<state, platform>>

\* stopAsync settles; then setIsPlaying(false); a rejection is not caught
StopPlayback_Stop(i) ==
    /\ At(i, "stopPlayback", "stopAsync")
    /\ \E ok \in BOOLEAN :
         IF ok
         THEN /\ playing' = playing \ {inv[i].snd}
              /\ isPlaying' = FALSE
              /\ Return(i, inv[i], "stopAsync", "ok")
         ELSE /\ Throw(i, inv[i], "stopAsync")
              /\ UNCHANGED <<isPlaying, playing>>
    /\ UNCHANGED <<recording, recordedURI, isRecording, sound, error>>
    /\ UNCHANGED <<liveRec, loaded, cb, audioMode, nextRec, nextSnd>>

\* ---- shareRecording (lines 162-190) --------------------------------------
ShareCatch(i, at) ==
    /\ error' = ShareFailed
    /\ Return(i, inv[i], at, "fail")

\* entry: `if (!recordedURI)` sets the error and returns (outside the try);
\* else `await Sharing.isAvailableAsync()`
shareRecording(i) ==
    /\ FirstFree(i)
    /\ IF recordedURI = Null
       THEN /\ error' = NothingToShare
            /\ Return(i, Capture("shareRecording"), "entry", "nothing")
       ELSE /\ Await(i, Capture("shareRecording"), "isAvailableAsync",
                     "entry", "ok")
            /\ UNCHANGED error
    /\ UNCHANGED <<recording, recordedURI, isRecording, sound, isPlaying>>
    /\ UNCHANGED platform

\* a shareRecording that ignores the answer of isAvailableAsync
AvailabilityNext_Ignored(isSharingAvailable) == "continue"

\* what shareRecording does with the answer of isAvailableAsync
AvailabilityNext(isSharingAvailable) ==
    IF ~isSharingAvailable THEN "return" ELSE "continue"

\* isAvailableAsync settles: true, false, or rejected
ShareRecording_IsAvailable(i) ==
    /\ At(i, "shareRecording", "isAvailableAsync")
    /\ \E outcome \in {"true", "false", "reject"} :
         IF outcome = "reject"
         THEN ShareCatch(i, "isAvailableAsync")
         ELSE IF AvailabilityNext(outcome = "true") = "return"
         THEN /\ error' = SharingUnavailable
              /\ Return(i, inv[i], "isAvailableAsync",
                        IF outcome = "true" THEN "ok" ELSE "unavailable")
         ELSE /\ Await(i, inv[i], "getInfoAsync", "isAvailableAsync",
                       IF outcome = "true" THEN "ok" ELSE "unavailable")
              /\ UNCHANGED error
    /\ UNCHANGED <<recording, recordedURI, isRecording, sound, isPlaying>>
    /\ UNCHANGED platform

\* FileSystem.getInfoAsync settles; then `await Sharing.shareAsync`
ShareRecording_GetInfo(i) ==
    /\ At(i, "shareRecording", "getInfoAsync")
    /\ \E ok \in BOOLEAN :
         IF ok
         THEN /\ Await(i, inv[i], "shareAsync", "getInfoAsync", "ok")
              /\ UNCHANGED error
         ELSE ShareCatch(i, "getInfoAsync")
    /\ UNCHANGED <<recording, recordedURI, isRecording, sound, isPlaying>>
    /\ UNCHANGED platform

\* a shareAsync continuation that also marks playback as stopped
ShareRecording_Share_StopsPlayback(i) ==
    /\ At(i, "shareRecording", "shareAsync")
    /\ \E ok \in BOOLEAN :
         IF ok
         THEN /\ Return(i, inv[i], "shareAsync", "ok")
              /\ UNCHANGED error
         ELSE ShareCatch(i, "shareAsync")
    /\ isPlaying' = FALSE
    /\ UNCHANGED <<recording, recordedURI, isRecording, sound>>
    /\ UNCHANGED platform

\* Sharing.shareAsync settles
ShareRecording_Share(i) ==
    /\ At(i, "shareRecording", "shareAsync")
    /\ \E ok \in BOOLEAN :
         IF ok
         THEN /\ Return(i, inv[i], "shareAsync", "ok")
              /\ UNCHANGED error
         ELSE ShareCatch(i, "shareAsync")
    /\ UNCHANGED <<recording, recordedURI, isRecording, sound, isPlaying>>
    /\ UNCHANGED platform

\* ---- the rendered buttons (lines 196-216) --------------------------------
\* onPress={isRecording ? stopRecording : startRecording}
RecordButton(i) == IF isRecording THEN stopRecording(i) ELSE startRecording(i)

\* rendered only when recordedURI is set;
\* onPress={isPlaying ? stopPlayback : playRecording}
PlayButton(i) ==
    /\ recordedURI # Null
    /\ IF isPlaying THEN stopPlayback(i) ELSE playRecording(i)

\* rendered only when recordedURI is set; onPress={shareRecording}
ShareButton(i) ==
    /\ recordedURI # Null
    /\ shareRecording(i)

Next ==
    \/ \E i \in Slots : RecordButton(i)
    \/ \E i \in Slots : PlayButton(i)
    \/ \E i \in Slots : ShareButton(i)
    \/ \E i \in Slots : StartRecording_Permission(i)
    \/ \E i \in Slots : StartRecording_SetMode(i)
    \/ \E i \in Slots : StartRecording_Prepare(i)
    \/ \E i \in Slots : StartRecording_Start(i)
    \/ \E i \in Slots : StopRecording_StopAndUnload(i)
    \/ \E i \in Slots : StopRecording_ResetMode(i)
    \/ \E i \in Slots : PlayRecording_Unload(i)
    \/ \E i \in Slots : PlayRecording_Create(i)
    \/ \E i \in Slots : PlayRecording_SetVolume(i)
    \/ \E i \in Slots : PlayAsync_Starts(i)
    \/ \E i \in Slots : PlayRecording_Play(i)
    \/ \E i \in Slots : StopPlayback_Stop(i)
    \/ \E i \in Slots : ShareRecording_IsAvailable(i)
    \/ \E i \in Slots : ShareRecording_GetInfo(i)
    \/ \E i \in Slots : ShareRecording_Share(i)
    \/ \E s \in SndIds : PlaybackStatusUpdate(s)

Spec == Init /\ [][Next]_vars

\* ---- the handlers called directly ------------------------------------------
\* The five handlers as functions of the component, each callable in any
\* state (lines 38, 97, 120, 155, 162), whatever the buttons currently show.
SegmentStep ==
    \/ \E i \in Slots : StartRecording_Permission(i)
    \/ \E i \in Slots : StartRecording_SetMode(i)
    \/ \E i \in Slots : StartRecording_Prepare(i)
    \/ \E i \in Slots : StartRecording_Start(i)
    \/ \E i \in Slots : StopRecording_StopAndUnload(i)
    \/ \E i \in Slots : StopRecording_ResetMode(i)
    \/ \E i \in Slots : PlayRecording_Unload(i)
    \/ \E i \in Slots : PlayRecording_Create(i)
    \/ \E i \in Slots : PlayRecording_SetVolume(i)
    \/ \E i \in Slots : PlayAsync_Starts(i)
    \/ \E i \in Slots : PlayRecording_Play(i)
    \/ \E i \in Slots : StopPlayback_Stop(i)
    \/ \E i \in Slots : ShareRecording_IsAvailable(i)
    \/ \E i \in Slots : ShareRecording_GetInfo(i)
    \/ \E i \in Slots : ShareRecording_Share(i)
    \/ \E s \in SndIds : PlaybackStatusUpdate(s)

NextDirect ==
    \/ \E i \in Slots : startRecording(i)
    \/ \E i \in Slots : stopRecording(i)
    \/ \E i \in Slots : playRecording(i)
    \/ \E i \in Slots : stopPlayback(i)
    \/ \E i \in Slots : shareRecording(i)
    \/ SegmentStep

SpecDirect == Init /\ [][NextDirect]_vars

TypeOK ==
    /\ recording \in RecIds \cup {Null}
    /\ recordedURI \in RecIds \cup {Null}
    /\ isRecording \in BOOLEAN
    /\ sound \in SndIds \cup {Null}
    /\ isPlaying \in BOOLEAN
    /\ liveRec \subseteq RecIds
    /\ loaded \subseteq SndIds
    /\ playing \subseteq loaded
    /\ cb \subseteq SndIds
    /\ audioMode \in BOOLEAN

\* ---- properties -----------------------------------------------------------
\* the message startRecording logs, and does not pass to setError, when the
\* permission is not granted (line 43)
PermissionDenied == "Permission to access microphone not granted"

\* the last step was the return of handler `op`
Returned(op) == last.op = op /\ last.ev = "return"

\* C1: at most one recording that was opened (prepared) and not yet
\* stopped/unloaded exists at any time.
C1_AtMostOneRecordingHandle == Cardinality(liveRec) <= 1

\* C2: at most one sound that was loaded and not yet unloaded exists at any
\* time.
C2_AtMostOnePlaybackHandle == Cardinality(loaded) <= 1

\* C3: isRecording and isPlaying are never both true.
C3_NotRecordingAndPlaying == ~(isRecording /\ isPlaying)

\* C4: when stopRecording returns after its stopAndUnloadAsync failed, the
\* StopFailed error is shown, the controller holds no recording and
\* isRecording is false.
C4_StopFailureDiscardsHandle ==
    (Returned("stopRecording") /\ last.at = "stopAndUnloadAsync"
        /\ last.res = "fail")
    => (error = StopFailed /\ recording = Null /\ ~isRecording)

\* C5: when playRecording returns after one of its platform calls failed,
\* the PlayFailed error is shown and isPlaying is false.
C5_PlayFailureNotPlaying ==
    (Returned("playRecording") /\ last.res = "fail")
    => (error = PlayFailed /\ ~isPlaying)

\* C6: the step in which startRecording learns the permission was not
\* granted surfaces PermissionDenied as the error, changes no routing mode,
\* opens no recording, and leaves recording, isRecording, recordedURI, sound
\* and isPlaying unchanged.
C6_PermissionDeniedSurfaced ==
    [][(last' # last /\ last'.op = "startRecording" /\ last'.res = "denied")
       => /\ error' = PermissionDenied
          /\ UNCHANGED <<recording, isRecording, recordedURI, sound,
                         isPlaying, audioMode, liveRec>>]_vars

\* C7: no handler ends with an exception that it did not catch.
C7_NoExceptionEscapes == last.ev # "throw"

\* C8: a sound that is playing has its status callback registered and its
\* playRecording has already run setIsPlaying(true); and right after the
\* callback received didJustFinish, isPlaying is false (no stopPlayback
\* needed).
C8_CompletionResetsIsPlaying ==
    /\ playing \subseteq cb
    /\ \A i \in Slots :
         (inv[i].op = "playRecording" /\ inv[i].new \in playing)
         => inv[i].pc = "playAsync:started"
    /\ (last.op = "onPlaybackStatusUpdate" /\ last.at = "didJustFinish")
       => (last.res = "ok" /\ ~isPlaying)

\* C8 witness: a sound finished on its own, the callback ran, isPlaying is
\* false and no stopPlayback is in flight.
C8_Witness ==
    /\ last.op = "onPlaybackStatusUpdate"
    /\ last.at = "didJustFinish"
    /\ ~isPlaying
    /\ \A i \in Slots : inv[i].op # "stopPlayback"

\* C9: when isAvailableAsync answers false, shareRecording returns at once
\* with the SharingUnavailable error shown and without having called
\* shareAsync.
C9_UnavailableNeverShares ==
    (last.op = "shareRecording" /\ last.at = "isAvailableAsync"
        /\ last.res = "unavailable")
    => /\ last.ev = "return"
       /\ error = SharingUnavailable
       /\ "shareAsync" \notin last.calls
       /\ "getInfoAsync" \notin last.calls

\* C9 witness: shareRecording, invoked with a recording present, has
\* returned because sharing is unavailable.
C9_Witness ==
    /\ Returned("shareRecording")
    /\ last.res = "unavailable"
    /\ recordedURI # Null

\* C10: when startRecording returns after one of its platform calls failed,
\* the controller holds no recording, isRecording is false and the
\* StartFailed error is shown.
C10_StartFailureLeavesIdle ==
    (Returned("startRecording") /\ last.res = "fail")
    => (recording = Null /\ ~isRecording /\ error = StartFailed)

\* C11: an operation that completes successfully leaves no error on display
\* (an error of an earlier attempt has been replaced).
C11_SuccessClearsError ==
    (last.ev = "return" /\ last.res = "ok") => error = NoError

\* C12: stopRecording called while the controller holds no recording returns
\* at once: it issues no platform call and changes no state cell (no error
\* either) and nothing on the platform.
C12_StopWithoutHandleIsNoOp ==
    [][(last' # last /\ last'.op = "stopRecording" /\ last'.at = "entry"
          /\ recording = Null)
       => /\ last'.ev = "return"
          /\ last'.calls = {}
          /\ UNCHANGED <<state, platform>>]_vars

\* C12 witness: stopRecording has just returned from its entry check with no
\* recording held.
C12_Witness ==
    /\ Returned("stopRecording")
    /\ last.at = "entry"
    /\ recording = Null

\* C13: playRecording called while there is no recorded asset shows
\* NothingToPlay, returns without any platform call (nothing loaded, nothing
\* unloaded), and isPlaying is false afterwards.
C13_PlayWithoutAsset ==
    [][(last' # last /\ last'.op = "playRecording" /\ last'.at = "entry"
          /\ recordedURI = Null)
       => /\ last'.ev = "return"
          /\ last'.calls = {}
          /\ error' = NothingToPlay
          /\ ~isPlaying'
          /\ UNCHANGED <<recording, recordedURI, isRecording, sound,
                         isPlaying, platform>>]_vars

\* C13 witness: playRecording has just returned because nothing is recorded.
C13_Witness ==
    /\ Returned("playRecording")
    /\ last.res = "nothing"
    /\ recordedURI = Null
    /\ error = NothingToPlay

\* C14: no step of shareRecording changes recording, isRecording,
\* recordedURI, sound or isPlaying.
C14_ShareKeepsState ==
    [][(last' # last /\ last'.op = "shareRecording")
       => UNCHANGED <<recording, isRecording, recordedURI, sound,
                      isPlaying>>]_vars

\* C14 witness: shareRecording has completed a share while a sound is held
\* and isPlaying is true.
C14_Witness ==
    /\ Returned("shareRecording")
    /\ last.at = "shareAsync"
    /\ sound # Null
    /\ isPlaying

\* C15: at most one recording-lifecycle handler and at most one
\* playback-lifecycle handler is suspended at a platform call at any time.
C15_OneInFlightPerLifecycle ==
    /\ Cardinality({i \in Slots :
          inv[i].op \in {"startRecording", "stopRecording"}}) <= 1
    /\ Cardinality({i \in Slots :
          inv[i].op \in {"playRecording", "stopPlayback"}}) <= 1

\* the recording whose file a locator names
RecordingOf(uri) == CHOOSE h \in RecIds : getURI(h) = uri

\* C16: the asset locator held by the controller, and the one captured by any
\* playRecording or shareRecording in flight, names a recording that has
\* been stopped and unloaded.
C16_AssetOnlyAfterFinalize ==
    /\ recordedURI # Null => RecordingOf(recordedURI) \notin liveRec
    /\ \A i \in Slots :
         (inv[i].op \in {"playRecording", "shareRecording"}
            /\ inv[i].uri # Null)
         => RecordingOf(inv[i].uri) \notin liveRec

\* C16 witness: a sound has been loaded from the asset while another
\* recording is open.
C16_Witness ==
    /\ \E i \in Slots : At(i, "playRecording", "setVolumeAsync")
    /\ liveRec # {}

\* C17: stopPlayback called while no sound is held, or while isPlaying is
\* false, returns at once without a platform call and without changing
\* anything.
C17_StopPlaybackOnlyWhenPlaying ==
    [][(last' # last /\ last'.op = "stopPlayback" /\ last'.at = "entry"
          /\ (sound = Null \/ ~isPlaying))
       => /\ last'.ev = "return"
          /\ last'.calls = {}
          /\ UNCHANGED <<state, platform>>]_vars

\* C18: the step of stopRecording that follows a successful
\* stopAndUnloadAsync sets the asset locator to that of the recording just
\* stopped (non-empty); the locator changes in no other way, and once set it
\* is never reset to empty.
C18_AssetSuperseded ==
    [][/\ recordedURI # Null => recordedURI' # Null
       /\ \A i \in Slots :
            (At(i, "stopRecording", "stopAndUnloadAsync")
               /\ inv'[i].pc = "setAudioModeAsync")
            => (recordedURI' = getURI(inv[i].rec) /\ recordedURI' # Null)
       /\ recordedURI' # recordedURI
          => \E i \in Slots :
               /\ At(i, "stopRecording", "stopAndUnloadAsync")
               /\ inv'[i].pc = "setAudioModeAsync"]_vars

\* C18 witness: the second recording has just been stopped after the first
\* one had been stopped, and the locator is the second one's.
C18_Witness ==
    /\ last.op = "stopRecording"
    /\ last.at = "stopAndUnloadAsync"
    /\ last.res = "ok"
    /\ nextRec = 3
    /\ liveRec = {}
    /\ recordedURI = getURI(2)

\* C19: isRecording is true exactly when the controller holds a recording.
C19_FlagMatchesHandle == isRecording <=> (recording # Null)

\* C19 witness: stopRecording has failed and the recording is still held,
\* with isRecording still true.
C19_Witness ==
    /\ Returned("stopRecording")
    /\ last.res = "fail"
    /\ isRecording
    /\ recording # Null

\* C20: whenever the controller holds no recording and no startRecording or
\* stopRecording is in flight, the routing mode last set is the default one
\* (recording not enabled).
C20_RoutingModeDefaultWhenIdle ==
    (recording = Null
       /\ \A i \in Slots :
            inv[i].op \notin {"startRecording", "stopRecording"})
    => ~audioMode
====
